---------------------------- MODULE Spec2Model ----------------------------
(***************************************************************************)
(* Model of src/src/ModelSelection.py: class LinearRegression, the online  *)
(* Bayesian model-selection engine (constructor, update, update_old).      *)
(*                                                                         *)
(* Numbers.  Real quantities of the weight posterior (means, precisions,   *)
(* covariances) are exact rationals <<n, d>> in lowest terms with d > 0,   *)
(* so that equalities between two ways of computing a posterior are        *)
(* equalities of real numbers (the code's float64 results agree with them  *)
(* up to rounding).  Densities and evidences are float64 values of the     *)
(* form sqrt(rad) * (2 pi)^(tp/2) * exp(-ex), kept symbolically as the     *)
(* record [z, rad, tp, ex]; z marks the value 0.0 that float64 produces    *)
(* when exp underflows.                                                    *)
(***************************************************************************)
EXTENDS Integers, Sequences, FiniteSets, TLC

(***************************************************************************)
(* Bounds of the model.                                                    *)
(***************************************************************************)
\* number of update / update_old calls explored on one engine
MaxCalls == 2

(***************************************************************************)
(* Let(e, F) is F applied to e: it names an intermediate value, as a local *)
(* variable of the code does.  Tabulate(n, F) is <<F(1), ..., F(n)>>.      *)
(***************************************************************************)
Let(e, F(_)) == F(e)

Tabulate(n, F(_)) ==
    LET RECURSIVE T(_)
        T(m) == IF m = 0 THEN <<>> ELSE Append(T(m - 1), F(m))
    IN  T(n)

(***************************************************************************)
(* Exact rational arithmetic.                                              *)
(***************************************************************************)
Abs(n) == IF n < 0 THEN -n ELSE n

RECURSIVE Gcd(_, _)
Gcd(a, b) == IF b = 0 THEN a ELSE Gcd(b, a % b)

Norm(n, d) ==
    Let(Gcd(Abs(n), Abs(d)), LAMBDA g :
        IF d < 0 THEN <<(-n) \div g, (-d) \div g>> ELSE <<n \div g, d \div g>>)

Rat(n) == <<n, 1>>

RAdd(a, b) ==
    Let(Gcd(a[2], b[2]), LAMBDA g :
        Norm(a[1] * (b[2] \div g) + b[1] * (a[2] \div g), (a[2] \div g) * b[2]))

RNeg(a) == <<-a[1], a[2]>>

RSub(a, b) == RAdd(a, RNeg(b))

RMul(a, b) ==
    Let(Gcd(Abs(a[1]), b[2]), LAMBDA g1 :
    Let(Gcd(Abs(b[1]), a[2]), LAMBDA g2 :
        Norm((a[1] \div g1) * (b[1] \div g2), (a[2] \div g2) * (b[2] \div g1))))

RInv(a) == IF a[1] < 0 THEN <<-a[2], -a[1]>> ELSE <<a[2], a[1]>>

RDiv(a, b) == RMul(a, RInv(b))

RGreater(a, b) == a[1] * b[2] > b[1] * a[2]

RECURSIVE RPow(_, _)
RPow(a, n) == IF n = 0 THEN Rat(1) ELSE RMul(a, RPow(a, n - 1))

RECURSIVE RSum(_)
RSum(s) == IF s = <<>> THEN Rat(0) ELSE RAdd(Head(s), RSum(Tail(s)))

(***************************************************************************)
(* Dense linear algebra on sequences of rows (numpy / numpy.linalg).       *)
(* A column vector (M, 1) is a sequence of M rationals.                    *)
(***************************************************************************)
Dot(u, v) == RSum(Tabulate(Len(u), LAMBDA i : RMul(u[i], v[i])))

\* np.dot(A, v) for a matrix A and a column vector v
MatVec(A, v) == Tabulate(Len(A), LAMBDA i : Dot(A[i], v))

\* column i of a matrix
Column(Phi, i) == Tabulate(Len(Phi), LAMBDA r : Phi[r][i])

\* np.dot(np.transpose(Phi), Phi) for Phi of shape (n, m)
Gram(Phi, m) ==
    Tabulate(m, LAMBDA i : Tabulate(m, LAMBDA j : Dot(Column(Phi, i), Column(Phi, j))))

\* np.transpose(Phi) * s for a matrix Phi of one row and a scalar s: a column
RowTimes(Phi, s) == Tabulate(Len(Phi[1]), LAMBDA i : RMul(Phi[1][i], s))

\* np.dot(np.transpose(Phi), t) for Phi of shape (n, m) and a column t
TransposeVec(Phi, m, t) == Tabulate(m, LAMBDA i : Dot(Column(Phi, i), t))

MatAdd(A, B) ==
    Tabulate(Len(A), LAMBDA i : Tabulate(Len(A[i]), LAMBDA j : RAdd(A[i][j], B[i][j])))

MatScale(A, s) ==
    Tabulate(Len(A), LAMBDA i : Tabulate(Len(A[i]), LAMBDA j : RMul(A[i][j], s)))

VecAdd(u, v) == Tabulate(Len(u), LAMBDA i : RAdd(u[i], v[i]))

VecSub(u, v) == Tabulate(Len(u), LAMBDA i : RSub(u[i], v[i]))

VecScale(u, s) == Tabulate(Len(u), LAMBDA i : RMul(u[i], s))

\* np.eye(m, m)
Eye(m) == Tabulate(m, LAMBDA i : Tabulate(m, LAMBDA j : IF i = j THEN Rat(1) ELSE Rat(0)))

DropAt(s, i) == Tabulate(Len(s) - 1, LAMBDA j : IF j < i THEN s[j] ELSE s[j + 1])

Minor(A, i, j) == Tabulate(Len(A) - 1, LAMBDA r : DropAt(DropAt(A, i)[r], j))

\* linalg.det, by expansion along the first row
RECURSIVE Det(_)
Det(A) ==
    IF Len(A) = 0 THEN Rat(1)
    ELSE RSum(Tabulate(Len(A), LAMBDA j :
            RMul(IF j % 2 = 1 THEN A[1][j] ELSE RNeg(A[1][j]), Det(Minor(A, 1, j)))))

\* the cofactor of entry (i, j)
Cofactor(A, i, j) ==
    Let(Det(Minor(A, i, j)), LAMBDA c : IF (i + j) % 2 = 0 THEN c ELSE RNeg(c))

\* linalg.inv, by cofactors
Inv(A) ==
    Let(Det(A), LAMBDA d :
        Tabulate(Len(A), LAMBDA i : Tabulate(Len(A), LAMBDA j :
            RDiv(Cofactor(A, j, i), d))))

(***************************************************************************)
(* float64 values of the evidence computation.  A value is                 *)
(* sqrt(rad) * (2 pi)^(tp/2) * exp(-ex), or exactly 0.0 (z) once the       *)
(* exponential underflows: exp(-ex) is 0.0 in float64 for ex above         *)
(* ExpUnderflow (the smallest subnormal is about exp(-745.13)).  The       *)
(* prefactors of the two densities are at most 1 for the noise levels and  *)
(* prior factors of the model, so a density or a product of densities      *)
(* whose exponent is above ExpUnderflow is 0.0.                            *)
(***************************************************************************)
ExpUnderflow == 745

FZero == [z |-> TRUE, rad |-> Rat(0), tp |-> 0, ex |-> Rat(0)]

FMake(rad, tp, ex) ==
    IF RGreater(ex, Rat(ExpUnderflow)) THEN FZero
    ELSE [z |-> FALSE, rad |-> rad, tp |-> tp, ex |-> ex]

\* a * b in float64
FMul(a, b) ==
    IF a.z \/ b.z THEN FZero
    ELSE FMake(RMul(a.rad, b.rad), a.tp + b.tp, RAdd(a.ex, b.ex))

\* a / b in float64, b not 0.0
FDiv(a, b) ==
    IF a.z THEN FZero
    ELSE FMake(RDiv(a.rad, b.rad), a.tp - b.tp, RSub(a.ex, b.ex))

\* math.sqrt(d * (2 pi)^(-m)) for a rational d > 0
FSqrtDet(d, m) == FMake(d, -m, Rat(0))

(***************************************************************************)
(* Collaborators (RandomVariables.py, Hypotheses.py).                      *)
(***************************************************************************)
\* DiagonalGaussianRV(mean, factor).evaluate(v): the density of v under
\* N(mean, factor * I), (2 pi factor)^(-n/2) * exp(-|v - mean|^2 / (2 factor))
DiagonalGaussianEvaluate(mean, factor, v) ==
    Let(VecSub(v, mean), LAMBDA r :
        FMake(RInv(RPow(factor, Len(mean))), -Len(mean),
              RDiv(Dot(r, r), RMul(Rat(2), factor))))

\* GaussianRV(mean, variance).evaluate(v) for a full covariance matrix:
\* (2 pi)^(-n/2) * det(variance)^(-1/2) * exp(-(v-mean)^T variance^-1 (v-mean) / 2)
GaussianEvaluate(mean, variance, v) ==
    Let(VecSub(v, mean), LAMBDA r :
        FMake(RInv(Det(variance)), -Len(mean),
              RDiv(Dot(r, MatVec(Inv(variance), r)), Rat(2))))

\* GaussianRV(mean, variance): the object keeps the covariance and its inverse
GaussianRV(mean, variance) ==
    [mean |-> mean, variance |-> variance, inv_variance |-> Inv(variance)]

\* currentPara.inv_variance = SNInv: the setter recomputes the covariance
SetInvVariance(para, SNInv) ==
    [para EXCEPT !.inv_variance = SNInv, !.variance = Inv(SNInv)]

\* hyp.parameterPrior.variance: factor * I
PriorVariance(hyp) == MatScale(Eye(hyp.M), hyp.factor)

\* hyp.evaluate(xs): one row of basis-function values per input; the basis
\* functions of the model's hypotheses are the monomials x^p, p in hyp.powers
Evaluate(hyp, xs) ==
    Tabulate(Len(xs), LAMBDA r :
        Tabulate(Len(hyp.powers), LAMBDA j : RPow(Rat(xs[r]), hyp.powers[j])))

\* The hypothesis collections the engine is constructed with.  A hypothesis
\* is [M, powers, mean, factor, diagonal]: its declared number of weights,
\* its basis functions, the mean and the variance factor of its weight
\* prior, and whether that prior is a DiagonalGaussianRV.
HypConstant ==
    [M |-> 1, powers |-> <<0>>, mean |-> <<Rat(1)>>, factor |-> Rat(1), diagonal |-> TRUE]

HypLinear ==
    [M |-> 2, powers |-> <<0, 1>>, mean |-> <<Rat(0), Rat(0)>>, factor |-> Rat(2),
     diagonal |-> TRUE]

\* declares two weights and evaluates three basis functions
HypMisdeclared ==
    [M |-> 2, powers |-> <<0, 1, 2>>, mean |-> <<Rat(0), Rat(0)>>, factor |-> Rat(2),
     diagonal |-> TRUE]

\* its weight prior is not a DiagonalGaussianRV
HypFullPrior ==
    [M |-> 1, powers |-> <<1>>, mean |-> <<Rat(0)>>, factor |-> Rat(1), diagonal |-> FALSE]

GoodCollection ==
    [hyps |-> <<HypConstant, HypLinear>>, prior |-> << <<1, 3>>, <<2, 3>> >>]

FaultyCollection ==
    [hyps |-> <<HypConstant, HypMisdeclared>>, prior |-> << <<1, 2>>, <<1, 2>> >>]

FullPriorCollection ==
    [hyps |-> <<HypConstant, HypFullPrior>>, prior |-> << <<1, 2>>, <<1, 2>> >>]

Collections == {GoodCollection, FaultyCollection, FullPriorCollection}

\* observationNoise values: real ones and one with an imaginary part
Noises == {[re |-> 1, im |-> 0], [re |-> 2, im |-> 0], [re |-> -1, im |-> 0],
           [re |-> 1, im |-> 1]}

\* the inputs and targets of update calls
XValues == {0, 1}

TValues == {0, 1, 100}

\* np.isreal(observationNoise)
IsReal(noise) == noise.im = 0

(***************************************************************************)
(* Entries of probHyp: the prior probability put there by the constructor, *)
(* a normalized evidence num / sum(den), or the NaN that 0.0 / 0.0 gives.  *)
(***************************************************************************)
PriorEntry(p) ==
    [kind |-> "prior", num |-> FMake(RMul(p, p), 0, Rat(0)), den |-> <<>>]

\* unnormalizedEvidence[k] / normalization, normalization = np.sum(ev)
Normed(ev, k) ==
    IF \A j \in 1..Len(ev) : ev[j].z
    THEN [kind |-> "nan", num |-> ev[k], den |-> ev]
    ELSE [kind |-> "normed", num |-> ev[k], den |-> ev]

(***************************************************************************)
(* The engine.  self is the record of the object's fields; an operation    *)
(* yields [self, raised, unnormalizedEvidence]: the object as the call     *)
(* leaves it, the exception it ends with ("none" when it returns), and     *)
(* the call's local array of evidences.                                    *)
(***************************************************************************)
NoEngine ==
    [hypotheses |-> [hyps |-> <<>>, prior |-> <<>>], numHyp |-> 0,
     XHist |-> <<>>, THist |-> <<>>, sigma |-> [re |-> 0, im |-> 0],
     parameter |-> <<>>, mHist |-> <<>>, SHist |-> <<>>, probHyp |-> <<>>,
     Phis |-> <<>>]

\* self.sigma ** 2
SigmaSq(self) == Rat(self.sigma.re * self.sigma.re)

\* np.zeros((self.numHyp, 1))
Zeros(n) == Tabulate(n, LAMBDA k : FZero)

\* __init__ with every design matrix given the width of the first hypothesis
initFirstWidth(collectionOfHypotheses, observationNoise) ==
    Let(collectionOfHypotheses.hyps, LAMBDA hyps :
        IF ~IsReal(observationNoise) \/ \E k \in 1..Len(hyps) : ~hyps[k].diagonal
        THEN [self |-> NoEngine, raised |-> "AssertionError",
              unnormalizedEvidence |-> <<>>]
        ELSE [self |->
                [hypotheses |-> collectionOfHypotheses,
                 numHyp |-> Len(hyps),
                 XHist |-> <<>>,
                 THist |-> <<>>,
                 sigma |-> observationNoise,
                 parameter |-> Tabulate(Len(hyps), LAMBDA k :
                                  GaussianRV(hyps[k].mean, PriorVariance(hyps[k]))),
                 mHist |-> Tabulate(Len(hyps), LAMBDA k : <<>>),
                 SHist |-> Tabulate(Len(hyps), LAMBDA k : <<>>),
                 probHyp |-> Tabulate(Len(hyps), LAMBDA k :
                                <<PriorEntry(collectionOfHypotheses.prior[k])>>),
                 Phis |-> Tabulate(Len(hyps), LAMBDA k :
                                [ncols |-> hyps[1].M, rows |-> <<>>])],
              raised |-> "none",
              unnormalizedEvidence |-> <<>>])

\* __init__: the assertions, then the fields
init(collectionOfHypotheses, observationNoise) ==
    Let(collectionOfHypotheses.hyps, LAMBDA hyps :
        IF ~IsReal(observationNoise) \/ \E k \in 1..Len(hyps) : ~hyps[k].diagonal
        THEN [self |-> NoEngine, raised |-> "AssertionError",
              unnormalizedEvidence |-> <<>>]
        ELSE [self |->
                [hypotheses |-> collectionOfHypotheses,
                 numHyp |-> Len(hyps),
                 XHist |-> <<>>,
                 THist |-> <<>>,
                 sigma |-> observationNoise,
                 parameter |-> Tabulate(Len(hyps), LAMBDA k :
                                  GaussianRV(hyps[k].mean, PriorVariance(hyps[k]))),
                 mHist |-> Tabulate(Len(hyps), LAMBDA k : <<>>),
                 SHist |-> Tabulate(Len(hyps), LAMBDA k : <<>>),
                 probHyp |-> Tabulate(Len(hyps), LAMBDA k :
                                <<PriorEntry(collectionOfHypotheses.prior[k])>>),
                 Phis |-> Tabulate(Len(hyps), LAMBDA k :
                                [ncols |-> hyps[k].M, rows |-> <<>>])],
              raised |-> "none",
              unnormalizedEvidence |-> <<>>])

\* numpy refuses to add an (m, m) and a (w, w) array unless m = w or one is 1
BroadcastError(m, w) == m # w /\ m # 1 /\ w # 1

\* self.XHist = np.append(self.XHist, newX); self.THist = np.append(...)
AppendObservation(self, newX, newT) ==
    [self EXCEPT !.XHist = Append(@, newX), !.THist = Append(@, newT)]

\* NewPrecision without the division by sigma ** 2
NewPrecisionNoNoise(self, para, Phi) ==
    MatAdd(para.inv_variance, Gram(Phi, Len(Phi[1])))

\* SNInv = currentPara.inv_variance + np.dot(np.transpose(Phi), Phi) / sigma ** 2
NewPrecision(self, para, Phi) ==
    MatAdd(para.inv_variance, MatScale(Gram(Phi, Len(Phi[1])), RInv(SigmaSq(self))))

\* NewTemp computed after currentPara.inv_variance has been reassigned
NewTempAfterAssignment(self, para, Phi, newT) ==
    VecAdd(MatVec(NewPrecision(self, para, Phi), para.mean),
           VecScale(RowTimes(Phi, Rat(newT)), RInv(SigmaSq(self))))

\* temp = np.dot(inv_variance, mean) + np.transpose(Phi) * newT / sigma ** 2
NewTemp(self, para, Phi, newT) ==
    VecAdd(MatVec(para.inv_variance, para.mean),
           VecScale(RowTimes(Phi, Rat(newT)), RInv(SigmaSq(self))))

\* an exception: the object stays as the statements before it left it
Raise(self, exception) ==
    [self |-> self, raised |-> exception, unnormalizedEvidence |-> Zeros(self.numHyp)]

\* the statements ended without an exception
Done(self, ev) == [self |-> self, raised |-> "none", unnormalizedEvidence |-> ev]

\* the body of update's first loop for hypothesis k
RefreshPosterior(self, k, newX, newT) ==
    Let(self.parameter[k], LAMBDA currentPara :
    Let(Evaluate(self.hypotheses.hyps[k], <<newX>>), LAMBDA Phi :
        IF BroadcastError(Len(currentPara.inv_variance), Len(Phi[1]))
        THEN Raise(self, "ValueError")
        ELSE
    Let(NewPrecision(self, currentPara, Phi), LAMBDA SNInv :
    Let(NewTemp(self, currentPara, Phi, newT), LAMBDA temp :
    Let(SetInvVariance(currentPara, SNInv), LAMBDA para1 :
    Let(MatVec(para1.variance, temp), LAMBDA mN :
        Done([self EXCEPT !.parameter[k] = [para1 EXCEPT !.mean = mN],
                          !.mHist[k] = Append(@, mN),
                          !.SHist[k] = Append(@, para1.variance)],
             Zeros(self.numHyp))))))))

\* update's first loop, from hypothesis k on; an exception ends it
RECURSIVE RefreshLoop(_, _, _, _)
RefreshLoop(self, k, newX, newT) ==
    IF k > self.numHyp THEN Done(self, Zeros(self.numHyp))
    ELSE Let(RefreshPosterior(self, k, newX, newT), LAMBDA r :
            IF r.raised # "none" THEN r ELSE RefreshLoop(r.self, k + 1, newX, newT))

\* A = np.dot(np.transpose(Phi), Phi) / sigma ** 2 + np.eye(M, M) / sigmaWSQ
EvidenceMatrix(self, Phi, M, sigmaWSQ) ==
    MatAdd(MatScale(Gram(Phi, M), RInv(SigmaSq(self))), MatScale(Eye(M), RInv(sigmaWSQ)))

\* num1 * num2 / denom of hypothesis k, from the design matrix Phi, the
\* current posterior mean and the likelihood num1 of the target history
Evidence(self, k, Phi, num1) ==
    Let(self.hypotheses.hyps[k], LAMBDA hyp :
        FDiv(FMul(num1,
                  DiagonalGaussianEvaluate(hyp.mean, hyp.factor, self.parameter[k].mean)),
             FSqrtDet(Det(EvidenceMatrix(self, Phi, Len(Phi[1]), hyp.factor)),
                      Len(Phi[1]))))

\* self.THist.reshape(N, -1), for N = len(self.THist): a column
TargetColumn(self) == Tabulate(Len(self.THist), LAMBDA i : Rat(self.THist[i]))

\* num1 of update: the density of the targets under N(Phi w, sigma^2 I)
Likelihood(self, k, Phi) ==
    DiagonalGaussianEvaluate(MatVec(Phi, self.parameter[k].mean), SigmaSq(self),
                             TargetColumn(self))

\* randomVariable.evaluate(temp) of a DiagonalGaussianRV whose mean has n
\* rows: a value of another shape than (n, 1) is rejected
EvaluateRejects(n, size) == size # n

\* the body of update's second loop for hypothesis k; self.THist.reshape(N, -1)
\* raises unless N divides the number of targets
ModelSelection(self, ev, k, newX) ==
    Let(Evaluate(self.hypotheses.hyps[k], <<newX>>), LAMBDA row :
        IF Len(row[1]) # self.Phis[k].ncols
        THEN [self |-> self, raised |-> "ValueError", unnormalizedEvidence |-> ev]
        ELSE
    Let([self EXCEPT !.Phis[k].rows = @ \o row], LAMBDA self1 :
    Let(self1.Phis[k].rows, LAMBDA Phi :
        IF \/ Len(self1.THist) % Len(Phi) # 0
           \/ EvaluateRejects(Len(Phi), Len(self1.THist))
        THEN [self |-> self1, raised |-> "ValueError", unnormalizedEvidence |-> ev]
        ELSE Done(self1,
                  [ev EXCEPT ![k] = Evidence(self1, k, Phi, Likelihood(self1, k, Phi))]))))

\* update's second loop, from hypothesis k on
RECURSIVE ModelSelectionLoop(_, _, _, _)
ModelSelectionLoop(self, ev, k, newX) ==
    IF k > self.numHyp THEN Done(self, ev)
    ELSE Let(ModelSelection(self, ev, k, newX), LAMBDA r :
            IF r.raised # "none" THEN r
            ELSE ModelSelectionLoop(r.self, r.unnormalizedEvidence, k + 1, newX))

\* normalize and save
Normalize(self, ev) ==
    [self EXCEPT !.probHyp = Tabulate(self.numHyp, LAMBDA k :
                                 Append(self.probHyp[k], Normed(ev, k)))]

\* update with the model selection loop run before the parameter estimation
updateEvidenceFirst(self, newX, newT) ==
    Let(ModelSelectionLoop(AppendObservation(self, newX, newT), Zeros(self.numHyp), 1, newX),
        LAMBDA r3 :
        IF r3.raised # "none" THEN r3
        ELSE
    Let(RefreshLoop(r3.self, 1, newX, newT), LAMBDA r2 :
        IF r2.raised # "none" THEN r2
        ELSE Done(Normalize(r2.self, r3.unnormalizedEvidence), r3.unnormalizedEvidence)))

\* update(newX, newT)
update(self, newX, newT) ==
    Let(RefreshLoop(AppendObservation(self, newX, newT), 1, newX, newT), LAMBDA r2 :
        IF r2.raised # "none" THEN r2
        ELSE
    Let(ModelSelectionLoop(r2.self, Zeros(self.numHyp), 1, newX), LAMBDA r3 :
        IF r3.raised # "none" THEN r3
        ELSE Done(Normalize(r3.self, r3.unnormalizedEvidence), r3.unnormalizedEvidence)))

\* the body of update_old's first loop for hypothesis k
RefreshPosteriorOld(self, k, newX, newT) ==
    Let(self.parameter[k], LAMBDA old :
    Let(Evaluate(self.hypotheses.hyps[k], <<newX>>), LAMBDA Phi :
        IF BroadcastError(Len(old.inv_variance), Len(Phi[1]))
        THEN Raise(self, "ValueError")
        ELSE
    Let(NewPrecision(self, old, Phi), LAMBDA SNInv :
    Let(NewTemp(self, old, Phi, newT), LAMBDA temp :
    Let(Inv(SNInv), LAMBDA SN :
    Let(MatVec(SN, temp), LAMBDA mN :
    Let(SetInvVariance([old EXCEPT !.mean = mN], SNInv), LAMBDA para1 :
        Done([self EXCEPT !.parameter[k] = para1,
                          !.mHist[k] = Append(@, mN),
                          !.SHist[k] = Append(@, para1.variance)],
             Zeros(self.numHyp)))))))))

\* update_old's first loop, from hypothesis k on; an exception ends it
RECURSIVE RefreshLoopOld(_, _, _, _)
RefreshLoopOld(self, k, newX, newT) ==
    IF k > self.numHyp THEN Done(self, Zeros(self.numHyp))
    ELSE Let(RefreshPosteriorOld(self, k, newX, newT), LAMBDA r :
            IF r.raised # "none" THEN r ELSE RefreshLoopOld(r.self, k + 1, newX, newT))

\* num1 of update_old: the density of the targets under a GaussianRV with
\* the full covariance matrix sigma^2 * np.eye(N, N)
LikelihoodOld(self, k, Phi) ==
    GaussianEvaluate(MatVec(Phi, self.parameter[k].mean),
                     MatScale(Eye(Len(Phi)), SigmaSq(self)), TargetColumn(self))

\* the body of update_old's second loop for hypothesis k: the design matrix
\* is evaluated afresh on the whole input history, self.Phis is not touched
ModelSelectionOld(self, ev, k) ==
    Let(Evaluate(self.hypotheses.hyps[k], self.XHist), LAMBDA Phi :
        [ev EXCEPT ![k] = Evidence(self, k, Phi, LikelihoodOld(self, k, Phi))])

\* update_old's second loop, from hypothesis k on
RECURSIVE ModelSelectionLoopOld(_, _, _)
ModelSelectionLoopOld(self, ev, k) ==
    IF k > self.numHyp THEN ev
    ELSE ModelSelectionLoopOld(self, ModelSelectionOld(self, ev, k), k + 1)

\* update_old(newX, newT)
update_old(self, newX, newT) ==
    Let(RefreshLoopOld(AppendObservation(self, newX, newT), 1, newX, newT), LAMBDA r2 :
        IF r2.raised # "none" THEN r2
        ELSE
    Let(ModelSelectionLoopOld(r2.self, Zeros(self.numHyp), 1), LAMBDA ev :
        Done(Normalize(r2.self, ev), ev)))

(***************************************************************************)
(* The state: the fields of the one LinearRegression object, and what the  *)
(* caller saw of the calls made so far.                                    *)
(***************************************************************************)
VARIABLES hypotheses, numHyp, XHist, THist, sigma, parameter, mHist, SHist,
          probHyp, Phis,
          constructed,            \* the constructor returned an object
          lastCall,               \* "none", "init", "update" or "update_old"
          raised,                 \* the exception the last call ended with
          unnormalizedEvidence,   \* the last call's local array of evidences
          calls,                  \* update and update_old calls made
          oldCalls,               \* update_old calls among them
          failedCalls             \* calls among them that raised

fields == <<hypotheses, numHyp, XHist, THist, sigma, parameter, mHist, SHist,
            probHyp, Phis>>

vars == <<hypotheses, numHyp, XHist, THist, sigma, parameter, mHist, SHist,
          probHyp, Phis, constructed, lastCall, raised, unnormalizedEvidence,
          calls, oldCalls, failedCalls>>

Engine ==
    [hypotheses |-> hypotheses, numHyp |-> numHyp, XHist |-> XHist, THist |-> THist,
     sigma |-> sigma, parameter |-> parameter, mHist |-> mHist, SHist |-> SHist,
     probHyp |-> probHyp, Phis |-> Phis]

Becomes(self) ==
    /\ hypotheses' = self.hypotheses
    /\ numHyp' = self.numHyp
    /\ XHist' = self.XHist
    /\ THist' = self.THist
    /\ sigma' = self.sigma
    /\ parameter' = self.parameter
    /\ mHist' = self.mHist
    /\ SHist' = self.SHist
    /\ probHyp' = self.probHyp
    /\ Phis' = self.Phis

Init ==
    /\ hypotheses = NoEngine.hypotheses
    /\ numHyp = NoEngine.numHyp
    /\ XHist = NoEngine.XHist
    /\ THist = NoEngine.THist
    /\ sigma = NoEngine.sigma
    /\ parameter = NoEngine.parameter
    /\ mHist = NoEngine.mHist
    /\ SHist = NoEngine.SHist
    /\ probHyp = NoEngine.probHyp
    /\ Phis = NoEngine.Phis
    /\ constructed = FALSE
    /\ lastCall = "none"
    /\ raised = "none"
    /\ unnormalizedEvidence = <<>>
    /\ calls = 0
    /\ oldCalls = 0
    /\ failedCalls = 0

\* the caller's view of a call that ended as r
Returns(r) ==
    /\ Becomes(r.self)
    /\ raised' = r.raised
    /\ unnormalizedEvidence' = r.unnormalizedEvidence

Construct(collectionOfHypotheses, observationNoise) ==
    /\ lastCall = "none"
    /\ \E r \in {init(collectionOfHypotheses, observationNoise)} :
        /\ Returns(r)
        /\ constructed' = (r.raised = "none")
    /\ lastCall' = "init"
    /\ UNCHANGED <<calls, oldCalls, failedCalls>>

Update(newX, newT) ==
    /\ constructed
    /\ calls < MaxCalls
    /\ \E r \in {update(Engine, newX, newT)} :
        /\ Returns(r)
        /\ failedCalls' = failedCalls + (IF r.raised = "none" THEN 0 ELSE 1)
    /\ lastCall' = "update"
    /\ calls' = calls + 1
    /\ UNCHANGED <<constructed, oldCalls>>

UpdateOld(newX, newT) ==
    /\ constructed
    /\ calls < MaxCalls
    /\ \E r \in {update_old(Engine, newX, newT)} :
        /\ Returns(r)
        /\ failedCalls' = failedCalls + (IF r.raised = "none" THEN 0 ELSE 1)
    /\ lastCall' = "update_old"
    /\ calls' = calls + 1
    /\ oldCalls' = oldCalls + 1
    /\ UNCHANGED constructed

Next ==
    \/ \E c \in Collections, noise \in Noises : Construct(c, noise)
    \/ \E newX \in XValues, newT \in TValues : Update(newX, newT)
    \/ \E newX \in XValues, newT \in TValues : UpdateOld(newX, newT)

Spec == Init /\ [][Next]_vars

(***************************************************************************)
(* Properties.                                                             *)
(***************************************************************************)
Last(s) == s[Len(s)]

\* the last call was an update that returned
UpdateReturned == constructed /\ lastCall = "update" /\ raised = "none"

\* the noise the engine was constructed with is real and strictly positive
ValidNoise == sigma.im = 0 /\ sigma.re > 0

\* only update has been called so far, and every call returned
OnlyUpdates == constructed /\ oldCalls = 0 /\ failedCalls = 0

\* every evidence is 0.0: their sum, the normalization, is 0.0
Degenerate(ev) == \A k \in 1..Len(ev) : ev[k].z

\* the entries e[1..n] are the evidences den[k] divided by their common
\* non-zero sum: each lies in [0, 1] and they add up to 1
OnSimplex(e) ==
    \A k \in 1..Len(e) :
        /\ e[k].kind = "normed"
        /\ e[k].den = e[1].den
        /\ e[k].num = e[k].den[k]
        /\ ~Degenerate(e[k].den)

\* C1: after every update call that returns, on an engine of valid noise,
\* the entries just appended to probHyp[k], over all hypotheses k, lie in
\* [0, 1] and sum to 1.
C1_SimplexInvariant ==
    (UpdateReturned /\ ValidNoise) => OnSimplex(Tabulate(numHyp, LAMBDA k : Last(probHyp[k])))

\* an update has returned having appended 0.0 / 0.0 for every hypothesis
C1_NaNAppended ==
    UpdateReturned /\ ValidNoise /\ \A k \in 1..numHyp : Last(probHyp[k]).kind = "nan"

\* C2: after n calls on a freshly constructed engine of valid noise, XHist
\* and THist hold n values, every Phis[k] has as many rows as there are
\* observations, and every probHyp[k] holds n + 1 entries.
C2_HistoryLengths ==
    (constructed /\ ValidNoise) =>
        /\ Len(XHist) = calls
        /\ Len(THist) = calls
        /\ \A k \in 1..numHyp :
            /\ Len(Phis[k].rows) = Len(XHist)
            /\ Len(probHyp[k]) = calls + 1

\* a call has returned and left a design matrix shorter than the history
C2_RowsBehind ==
    /\ constructed
    /\ ValidNoise
    /\ raised = "none"
    /\ \E k \in 1..numHyp : Len(Phis[k].rows) < Len(XHist)

\* the batch closed form for hypothesis hyp, from the design matrix Phi of
\* all inputs and the column t of all targets:
\*   S_N^-1 = S_0^-1 + Phi^T Phi / sigma^2
\*   m_N    = S_N (S_0^-1 m_0 + Phi^T t / sigma^2)
BatchPrecision(hyp, Phi, sigmaSq) ==
    MatAdd(Inv(PriorVariance(hyp)), MatScale(Gram(Phi, hyp.M), RInv(sigmaSq)))

BatchMean(hyp, Phi, t, sigmaSq) ==
    MatVec(Inv(BatchPrecision(hyp, Phi, sigmaSq)),
           VecAdd(MatVec(Inv(PriorVariance(hyp)), hyp.mean),
                  VecScale(TransposeVec(Phi, hyp.M, t), RInv(sigmaSq))))

IsBatchPosterior(para, hyp, Phi, t, sigmaSq) ==
    /\ para.inv_variance = BatchPrecision(hyp, Phi, sigmaSq)
    /\ para.variance = Inv(BatchPrecision(hyp, Phi, sigmaSq))
    /\ para.mean = BatchMean(hyp, Phi, t, sigmaSq)

\* C3: after update has been called once per observation, the weight
\* posterior of every hypothesis (precision, covariance and mean) is the
\* batch closed form computed from the design matrix of the whole input
\* history and the vector of all targets.
C3_SequentialIsBatch ==
    OnlyUpdates =>
        \A k \in 1..numHyp :
            IsBatchPosterior(parameter[k], hypotheses.hyps[k],
                             Evaluate(hypotheses.hyps[k], XHist),
                             Tabulate(Len(THist), LAMBDA i : Rat(THist[i])),
                             SigmaSq(Engine))

\* two observations at different inputs have been consumed under noise 2,
\* and the posterior mean of the linear hypothesis has left its prior mean
C3_TwoPointsConsumed ==
    /\ OnlyUpdates
    /\ calls = 2
    /\ sigma.re = 2
    /\ XHist = <<0, 1>>
    /\ THist = <<1, 100>>
    /\ parameter[2].mean # hypotheses.hyps[2].mean

\* C4: an update call that fails, on an engine of valid noise, leaves XHist,
\* THist, parameter, Phis, mHist, SHist and probHyp exactly as they were
\* before the call.
C4_FailedUpdateIsAtomic ==
    [][(ValidNoise /\ lastCall' = "update" /\ raised' # "none") => UNCHANGED fields]_vars

\* an update has failed after appending the observation and refreshing the
\* posterior of the first hypothesis
C4_PartialMutation ==
    /\ constructed
    /\ ValidNoise
    /\ lastCall = "update"
    /\ raised = "ValueError"
    /\ calls = 1
    /\ Len(XHist) = 1
    /\ Len(mHist[1]) = 1
    /\ Len(mHist[2]) = 0

\* C5: an update whose evidences sum to zero, on an engine of valid noise,
\* fails with DegenerateEvidence and appends nothing to probHyp: no update
\* returns with such a sum.
C5_DegenerateEvidenceReported ==
    [][(ValidNoise /\ lastCall' = "update" /\ raised' \in {"none", "DegenerateEvidence"}
            /\ Degenerate(unnormalizedEvidence'))
        => (raised' = "DegenerateEvidence" /\ probHyp' = probHyp)]_vars

\* an update has returned although every evidence underflowed to 0.0
C5_DegenerateReturned ==
    /\ UpdateReturned
    /\ ValidNoise
    /\ Degenerate(unnormalizedEvidence)
    /\ Len(probHyp[1]) = calls + 1

\* C6: an engine exists only for a real, strictly positive noise.
C6_NoiseValidated == constructed => (sigma.im = 0 /\ sigma.re > 0)

\* an engine has been constructed with a negative noise
C6_NegativeNoiseAccepted == constructed /\ sigma.re < 0

\* the engine after update(x2, t2) and then update(x1, t1), from construction
Reordered(collection, noise, X, T) ==
    update(update(init(collection, noise).self, X[2], T[2]).self, X[1], T[1])

\* C7: after two observations, the weight posterior of every hypothesis
\* (mean, covariance and precision) is the one the two update calls made in
\* the other order leave.
C7_OrderInvariance ==
    (OnlyUpdates /\ calls = 2) =>
        \E r \in {Reordered(hypotheses, sigma, XHist, THist)} :
            /\ r.raised = "none"
            /\ \A k \in 1..numHyp : r.self.parameter[k] = parameter[k]

\* two observations have been consumed and the first entries of mHist and
\* SHist of some hypothesis differ from those of the other order
C7_IntermediateDiffers ==
    /\ OnlyUpdates
    /\ calls = 2
    /\ \E r \in {Reordered(hypotheses, sigma, XHist, THist)} :
        \E k \in 1..numHyp :
            /\ r.self.mHist[k][1] # mHist[k][1]
            /\ r.self.SHist[k][1] # SHist[k][1]
            /\ r.self.mHist[k][2] = mHist[k][2]

\* C8: right after construction every parameter[k] is the hypothesis's own
\* weight prior, every probHyp[k] holds the one prior probability, every
\* Phis[k] is empty with M_k columns, and XHist and THist are empty.
C8_InitialState ==
    (constructed /\ lastCall = "init") =>
        /\ XHist = <<>>
        /\ THist = <<>>
        /\ numHyp = Len(hypotheses.hyps)
        /\ \A k \in 1..numHyp :
            /\ parameter[k].mean = hypotheses.hyps[k].mean
            /\ parameter[k].variance = PriorVariance(hypotheses.hyps[k])
            /\ probHyp[k] = <<PriorEntry(hypotheses.prior[k])>>
            /\ Phis[k] = [ncols |-> hypotheses.hyps[k].M, rows |-> <<>>]
            /\ mHist[k] = <<>>
            /\ SHist[k] = <<>>

\* an engine over hypotheses of different widths has just been constructed
C8_Constructed ==
    /\ constructed
    /\ lastCall = "init"
    /\ numHyp = 2
    /\ hypotheses.hyps[1].M # hypotheses.hyps[2].M

\* C9: in every state of an engine of valid noise, update_old and update
\* leave the same engine for every observation.
C9_LegacyEquivalent ==
    (constructed /\ ValidNoise) =>
        \A newX \in XValues, newT \in TValues :
            update_old(Engine, newX, newT).self = update(Engine, newX, newT).self

\* update_old has returned and left Phis without the rows update appends
C9_PhisNotAccumulated ==
    /\ constructed
    /\ ValidNoise
    /\ lastCall = "update_old"
    /\ raised = "none"
    /\ \A k \in 1..numHyp : Len(Phis[k].rows) = 0
    /\ Len(XHist) > 0

\* C10: in an update that returns, the evidence of every hypothesis is
\* computed from the history holding the new observation, the design matrix
\* holding the new row and the refreshed posterior mean of that hypothesis,
\* and every appended probability is normalized by all the evidences.
C10_PhaseOrder ==
    (UpdateReturned /\ oldCalls = 0) =>
        \A k \in 1..numHyp :
            /\ Len(Phis[k].rows) = Len(XHist)
            /\ parameter[k].mean = Last(mHist[k])
            /\ unnormalizedEvidence[k] =
                   Evidence(Engine, k, Evaluate(hypotheses.hyps[k], XHist),
                            Likelihood(Engine, k, Evaluate(hypotheses.hyps[k], XHist)))
            /\ Last(probHyp[k]) = Normed(unnormalizedEvidence, k)

\* a second update has returned with evidences that are not all zero and
\* posterior means that the call has changed
C10_SecondUpdateReturned ==
    /\ UpdateReturned
    /\ oldCalls = 0
    /\ calls = 2
    /\ ~Degenerate(unnormalizedEvidence)
    /\ \A k \in 1..numHyp : mHist[k][1] # mHist[k][2]

=============================================================================
